---- MODULE Spec2Model ----
(***************************************************************************)
(* Model of offres_emploi.api.Api: one client instance shared by the       *)
(* callers in Threads.  The cached token, the wall clock and the number of *)
(* tokens the token endpoint has issued are shared; every caller has its   *)
(* own position in search / referentiel / get_headers / get_token and in   *)
(* the retry loop the session's HTTPAdapter runs for one GET.              *)
(***************************************************************************)
EXTENDS Integers, Sequences, FiniteSets, TLC

\* ------------------------------------------------------------- bounds
\* The wall clock runs over 0..MaxTime.
MaxTime == 2
\* The token endpoint issues at most MaxTokens tokens (access_token 1..MaxTokens).
MaxTokens == 2

\* The callers that share the client instance.
Threads == {"t1", "t2"}

\* expires_in values the token endpoint answers with (seconds).
ExpiresIn == {1, 2}

\* ------------------------------------------------- program constants
\* Retry(total=3, ...)
RetryTotal == 3
\* Retry(status_forcelist=(502, 429))
status_forcelist == {502, 429}

NoToken == [absent |-> TRUE]
NoTime == 0 - 1
NoResp == [none |-> TRUE]
NoOutcome == [kind |-> "none"]

VARIABLES
    now,       \* datetime.datetime.today()
    token,     \* self.token: NoToken until the first successful get_token
    origin,    \* history: request-start and arrival time of the refresh that set token
    issued,    \* number of tokens the token endpoint has issued
    pc,        \* each caller's position
    op,        \* "search" | "referentiel" | "none"
    silent,    \* search's silent_http_errors
    chk,       \* get_headers' branch: "none" | "absent" | "expired" (get_token is
               \* running) | "valid" (the cached token passed the test) |
               \* "refreshed" (get_token has returned)
    t0,        \* get_token's current_time while it runs, NoTime otherwise
    hdr,       \* the token whose access_token is in the Authorization header
    attempts,  \* physical GETs sent for the current call
    sentAt,    \* clock at the last physical GET
    hist,      \* statuses received for the current call, in order
    resp,      \* the response session.get returned
    outcome,   \* how the call ended
    posts,     \* physical token POSTs sent for the current call
    tresp,     \* the token endpoint's response that made get_token raise
    timeouts   \* requests of the current call that exceeded self.timeout

vars == <<now, token, origin, issued, pc, op, silent, chk, t0, hdr, attempts,
          sentAt, hist, resp, outcome, posts, tresp, timeouts>>

\* ---------------------------------------------------------- responses
\* Header values are sequences of characters.
CR_Good == <<"o","f","f","r","e","s"," ","0","-","1","9","/","1","3","4">>
CR_Next == <<"o","f","f","r","e","s"," ","2","0","-","3","9","/","1","3","4">>
\* What the API answers for an empty result set: the pattern does not match it.
CR_Star == <<"o","f","f","r","e","s"," ","*","/","0">>

HeadersPlain == ("Date" :> <<"d">>)
HeadersWith(cr) == ("Content-Range" :> cr) @@ HeadersPlain

\* A body is JSON text (its decoded object under "json") or other text.
JsonBody(obj) == [json |-> obj]
TextBody == [text |-> "<html>"]
OffersObj == ("resultats" :> "offers") @@ ("filtresPossibles" :> "facets")
MessageObj == ("message" :> "invalid filter")
OtherObj == ("error" :> "bad request")

Response(st, h, b) == [status |-> st, headers |-> h, body |-> b]

\* The responses the API endpoints answer a GET with.
Responses ==
    { Response(200, HeadersWith(CR_Good), JsonBody(OffersObj)),
      Response(200, HeadersWith(CR_Next), JsonBody(OffersObj)),
      Response(200, HeadersWith(CR_Star), JsonBody(OffersObj)),
      Response(200, HeadersPlain, JsonBody(OffersObj)),
      Response(400, HeadersPlain, JsonBody(MessageObj)),
      Response(400, HeadersPlain, JsonBody(OtherObj)),
      Response(400, HeadersPlain, TextBody),
      Response(404, HeadersPlain, JsonBody(OtherObj)),
      Response(429, HeadersPlain, TextBody),
      Response(502, HeadersPlain, TextBody) }

\* The statuses the token endpoint answers the POST with.
TokenStatuses == {200, 400, 429, 502}

\* The JSON object of a token response: access_token id, valid n seconds.
TokenObj(id, n) == [access_token |-> id, expires_in |-> n]
\* A 2xx payload that lacks expires_in.
NoExpiryObj(id) == [access_token |-> id]
InvalidClientObj == ("error" :> "invalid_client")

\* The responses the token endpoint answers the POST with, id being the
\* access_token it would issue.
TokenResponses(id) ==
    {Response(200, HeadersPlain, JsonBody(TokenObj(id, n))) : n \in ExpiresIn}
    \cup { Response(200, HeadersPlain, JsonBody(NoExpiryObj(id))),
           Response(400, HeadersPlain, JsonBody(InvalidClientObj)),
           Response(400, HeadersPlain, TextBody),
           Response(429, HeadersPlain, TextBody),
           Response(502, HeadersPlain, TextBody) }

\* Every response the token endpoint may answer with, whatever it has issued.
AllTokenResponses == UNION {TokenResponses(id) : id \in 1..(MaxTokens + 1)}

\* ------------------------------------------------------------ outcomes
Returned(v) == [kind |-> "returned", value |-> v]
\* The call ended without a return statement: Python returns None; `printed` was printed.
ReturnedNone(txt) == [kind |-> "absent", printed |-> txt]
\* A slip that swallows the exception: the text is printed and None returned.
Raised_swallowed(e, txt) == ReturnedNone(txt)

\* raise e, str(e) being txt.
Raised(e, txt) == [kind |-> "raised", exc |-> e, text |-> txt]

\* Response.raise_for_status raises HTTPError for 400 <= status < 600.
raise_for_status(r) == 400 <= r.status /\ r.status < 600

\* str(error) of the HTTPError raise_for_status raised.
str_error(r) ==
    CASE r.status = 400 -> <<"400 Client Error">>
      [] r.status = 404 -> <<"404 Client Error">>
      [] r.status = 429 -> <<"429 Client Error">>
      [] r.status = 502 -> <<"502 Server Error">>
      [] OTHER -> <<"HTTP Error">>

\* Response.json(): defined when the body is JSON text, ValueError otherwise.
IsJson(b) == "json" \in DOMAIN b

\* str(r.json()) of a token endpoint's error payload.
py_str(obj) ==
    IF obj = InvalidClientObj THEN "{'error': 'invalid_client'}" ELSE "{...}"

\* ------------------------------------------------ the Content-Range pattern
Digits == {"0","1","2","3","4","5","6","7","8","9"}
Prefix == <<"o","f","f","r","e","s"," ">>
None == [none |-> TRUE]

At(s, i) == IF i >= 1 /\ i <= Len(s) THEN s[i] ELSE ""

\* A slip that writes \d for \d+: one digit at most.
DigitRun_one(s, i) == IF At(s, i) \in Digits THEN i ELSE i - 1

\* The end of the longest run of digits of s that starts at i (i-1: no digit at i).
DigitRun(s, i) ==
    LET ends == {i - 1} \cup {j \in i..Len(s) : \A k \in i..j : s[k] \in Digits}
    IN  CHOOSE j \in ends : \A k \in ends : k <= j

\* "offres (\d+)-(\d+)/(\d+)" matched at position i of s: the three groups, or None.
MatchAt(s, i) ==
    LET a  == i + Len(Prefix)
        e1 == DigitRun(s, a)
        e2 == DigitRun(s, e1 + 2)
        e3 == DigitRun(s, e2 + 2)
    IN  IF /\ i + Len(Prefix) - 1 <= Len(s)
           /\ SubSeq(s, i, i + Len(Prefix) - 1) = Prefix
           /\ e1 >= a
           /\ At(s, e1 + 1) = "-"
           /\ e2 >= e1 + 2
           /\ At(s, e2 + 1) = "/"
           /\ e3 >= e2 + 2
        THEN [first_index |-> [str |-> SubSeq(s, a, e1)],
              last_index  |-> [str |-> SubSeq(s, e1 + 2, e2)],
              max_results |-> [str |-> SubSeq(s, e2 + 2, e3)]]
        ELSE None

\* re.search(pattern, string): the leftmost match, None when there is none;
\* .groupdict() gives the groups as strings.
re_search(s) ==
    LET hits == {i \in 1..Len(s) : MatchAt(s, i) # None}
    IN  IF hits = {} THEN None
        ELSE MatchAt(s, CHOOSE i \in hits : \A k \in hits : i <= k)

\* ------------------------------------------------------- the handlers
\* A slip that leaves the API's message out of the text.
complete_message_generic_only(r) == str_error(r)

\* complete_message = str(error) + "\n" + r.json()["message"]
complete_message(r) == str_error(r) \o <<"\n", r.body.json["message"]>>

\* search, from the response session.get returned to the end of the call.
search_handle(r, silent_http_errors) ==
    IF raise_for_status(r)
    THEN IF r.status = 400
         THEN IF ~IsJson(r.body)
              THEN Raised("ValueError", <<"not JSON">>)
              ELSE IF "message" \notin DOMAIN r.body.json
              THEN Raised("KeyError", <<"message">>)
              ELSE IF silent_http_errors
                   THEN ReturnedNone(complete_message(r))
                   ELSE Raised("HTTPError", complete_message(r))
         ELSE IF silent_http_errors
              THEN ReturnedNone(str_error(r))
              ELSE Raised("HTTPError", str_error(r))
    ELSE IF "Content-Range" \notin DOMAIN r.headers
         THEN Raised("KeyError", <<"Content-Range">>)
         ELSE LET found_range == re_search(r.headers["Content-Range"])
              IN  IF found_range = None
                  THEN Raised("AttributeError", <<"groupdict">>)
                  ELSE IF ~IsJson(r.body)
                  THEN Raised("ValueError", <<"not JSON">>)
                  ELSE Returned(("Content-Range" :> found_range) @@ r.body.json)

\* referentiel, from the response session.get returned to the end of the call.
referentiel_handle(r) ==
    IF raise_for_status(r)
    THEN Raised("HTTPError", str_error(r))
    ELSE IF ~IsJson(r.body)
         THEN Raised("ValueError", <<"not JSON">>)
         ELSE Returned(r.body.json)

\* ------------------------------------------------------ the retry policy
\* A slip that mounts no retry policy: the first failed attempt is the last.
is_exhausted_at_once(n) == TRUE

\* urllib3's Retry.increment after the attempts-th response had a status of
\* status_forcelist: total goes down by one per response, and the policy is
\* exhausted when it falls below 0.
is_exhausted(n) == RetryTotal - n < 0

\* A slip that forces a retry on every error status.
is_retry_any_error(st) == st >= 400

\* A slip that leaves 429 out of status_forcelist.
is_retry_502_only(st) == st = 502

\* Retry.is_retry for a GET: the status is in status_forcelist (the Retry-After
\* header is not respected).
is_retry(st) == st \in status_forcelist

\* ------------------------------------------------------------- token
\* A slip that writes > for >=: at today = expires_at the token still passes.
is_expired_strict(tok, today) == today > tok.expires_at

\* is_expired: datetime.datetime.today() >= self.token["expires_at"]
is_expired(tok, today) == today >= tok.expires_at

\* A slip that reads the clock after the POST.
expires_at_from_arrival(current_time, arrival, expires_in) == arrival + expires_in

\* token["expires_at"] = current_time + timedelta(seconds=token["expires_in"]);
\* current_time was read before the POST, arrival is the clock when r.json() is read.
expires_at(current_time, arrival, expires_in) == current_time + expires_in

\* get_token from r = requests.post(...) on (r.raise_for_status() and what
\* follows it): the token it returns, or the exception it raises.
get_token_result(r, current_time, arrival) ==
    IF raise_for_status(r)
    THEN IF r.status = 400
         THEN IF ~IsJson(r.body)
              THEN Raised("ValueError", <<"not JSON">>)
              ELSE Raised("HTTPError", str_error(r) \o <<"\n", py_str(r.body.json)>>)
         ELSE Raised("HTTPError", str_error(r))
    ELSE IF ~IsJson(r.body)
         THEN Raised("ValueError", <<"not JSON">>)
         ELSE IF "expires_in" \notin DOMAIN r.body.json
         THEN Raised("KeyError", <<"expires_in">>)
         ELSE Returned(("expires_at" :>
                            expires_at(current_time, arrival, r.body.json.expires_in))
                       @@ r.body.json)

\* A slip that writes the new access_token into the cached dict instead of
\* replacing the dict.
stored_in_place(old, new) ==
    IF old = NoToken THEN new ELSE [old EXCEPT !.access_token = new.access_token]

\* self.token = token: the attribute is rebound to the new dict.
stored(old, new) == new

\* A slip that drops the cached token when the token request fails.
on_failure_clear(old) == NoToken

\* self.token when get_token raises: the assignment is not reached.
on_failure(old) == old

\* A slip that sends the POST through self.session, whose adapter retries.
post_retries_as_session(st, n) == is_retry(st) /\ ~is_exhausted(n)

\* requests.post uses a session of its own, whose adapter has max_retries=0:
\* the n-th POST is never followed by another one, whatever its status st.
post_retries(st, n) == FALSE

\* get_headers' test: hasattr(self, "token"), then is_expired().
headers_check(tok, today) ==
    IF tok = NoToken THEN "absent"
    ELSE IF is_expired(tok, today) THEN "expired"
    ELSE "valid"

\* ------------------------------------------------------------ actions
Init ==
    /\ now = 0
    /\ token = NoToken
    /\ origin = [current_time |-> NoTime, arrival |-> NoTime,
                 access_token |-> 0, expires_in |-> 0]
    /\ issued = 0
    /\ pc = [t \in Threads |-> "idle"]
    /\ op = [t \in Threads |-> "none"]
    /\ silent = [t \in Threads |-> FALSE]
    /\ chk = [t \in Threads |-> "none"]
    /\ t0 = [t \in Threads |-> NoTime]
    /\ hdr = [t \in Threads |-> NoToken]
    /\ attempts = [t \in Threads |-> 0]
    /\ sentAt = [t \in Threads |-> NoTime]
    /\ hist = [t \in Threads |-> <<>>]
    /\ resp = [t \in Threads |-> NoResp]
    /\ outcome = [t \in Threads |-> NoOutcome]
    /\ posts = [t \in Threads |-> 0]
    /\ tresp = [t \in Threads |-> NoResp]
    /\ timeouts = [t \in Threads |-> 0]

\* The clock advances, at any point of any call.
Tick ==
    /\ now < MaxTime
    /\ now' = now + 1
    /\ UNCHANGED <<token, origin, issued, pc, op, silent, chk, t0, hdr, attempts,
                   sentAt, hist, resp, outcome, posts, tresp, timeouts>>

\* get_headers up to the header's construction: with no token, or an expired one,
\* get_token reads current_time and sends the POST; otherwise the header is built next.
get_headers(t) ==
    LET found == headers_check(token, now)
    IN  /\ chk' = [chk EXCEPT ![t] = found]
        /\ IF found = "valid"
           THEN /\ pc' = [pc EXCEPT ![t] = "build"]
                /\ UNCHANGED <<t0, posts>>
           ELSE /\ pc' = [pc EXCEPT ![t] = "post"]
                /\ t0' = [t0 EXCEPT ![t] = now]
                /\ posts' = [posts EXCEPT ![t] = 1]

\* search(params, silent_http_errors) is called: its arguments are evaluated,
\* get_headers() among them.
search(t, silent_http_errors) ==
    /\ pc[t] = "idle"
    /\ op' = [op EXCEPT ![t] = "search"]
    /\ silent' = [silent EXCEPT ![t] = silent_http_errors]
    /\ get_headers(t)
    /\ UNCHANGED <<now, token, origin, issued, hdr, attempts, sentAt, hist, resp,
                   outcome, tresp, timeouts>>

\* referentiel(referentiel) is called.
referentiel(t) ==
    /\ pc[t] = "idle"
    /\ op' = [op EXCEPT ![t] = "referentiel"]
    /\ get_headers(t)
    /\ UNCHANGED <<now, token, origin, issued, silent, hdr, attempts, sentAt, hist,
                   resp, outcome, tresp, timeouts>>

\* get_token() is called by the user of the client: current_time is read and
\* the POST is sent.
get_token_call(t) ==
    /\ pc[t] = "idle"
    /\ op' = [op EXCEPT ![t] = "get_token"]
    /\ pc' = [pc EXCEPT ![t] = "post"]
    /\ t0' = [t0 EXCEPT ![t] = now]
    /\ posts' = [posts EXCEPT ![t] = 1]
    /\ UNCHANGED <<now, token, origin, issued, silent, chk, hdr, attempts, sentAt,
                   hist, resp, outcome, tresp, timeouts>>

\* get_token from the token endpoint's answer on: a 2xx answer with its
\* expires_at is stored in self.token and returned; anything else raises out of
\* get_token, and out of the get_headers, search or referentiel that called it.
get_token(t, st, r) ==
    /\ pc[t] = "post"
    /\ r \in TokenResponses(issued + 1)
    /\ r.status = st
    /\ get_token_result(r, t0[t], now).kind = "returned" => issued < MaxTokens
    /\ IF post_retries(r.status, posts[t])
       THEN /\ posts' = [posts EXCEPT ![t] = @ + 1]
            /\ UNCHANGED <<token, origin, issued, pc, chk, t0, outcome, tresp>>
       ELSE LET res == get_token_result(r, t0[t], now)
            IN  /\ t0' = [t0 EXCEPT ![t] = NoTime]
                /\ posts' = posts
                /\ IF res.kind = "returned"
                   THEN /\ token' = stored(token, res.value)
                        /\ origin' = [current_time |-> t0[t], arrival |-> now,
                                      access_token |-> r.body.json.access_token,
                                      expires_in |-> r.body.json.expires_in]
                        /\ issued' = issued + 1
                        /\ tresp' = tresp
                        /\ IF op[t] = "get_token"
                           THEN /\ pc' = [pc EXCEPT ![t] = "done"]
                                /\ outcome' = [outcome EXCEPT ![t] = res]
                                /\ chk' = chk
                           ELSE /\ pc' = [pc EXCEPT ![t] = "build"]
                                /\ chk' = [chk EXCEPT ![t] = "refreshed"]
                                /\ outcome' = outcome
                   ELSE /\ token' = on_failure(token)
                        /\ tresp' = [tresp EXCEPT ![t] = r]
                        /\ pc' = [pc EXCEPT ![t] = "done"]
                        /\ chk' = [chk EXCEPT ![t] = "none"]
                        /\ outcome' = [outcome EXCEPT ![t] = res]
                        /\ UNCHANGED <<origin, issued>>
    /\ UNCHANGED <<now, op, silent, hdr, attempts, sentAt, hist, resp, timeouts>>

\* get_headers builds the header from self.token and session.get sends the
\* first physical GET with it.
Dispatch(t) ==
    /\ pc[t] = "build"
    /\ hdr' = [hdr EXCEPT ![t] = token]
    /\ attempts' = [attempts EXCEPT ![t] = 1]
    /\ sentAt' = [sentAt EXCEPT ![t] = now]
    /\ pc' = [pc EXCEPT ![t] = "wait"]
    /\ UNCHANGED <<now, token, origin, issued, op, silent, chk, t0, hist, resp,
                   outcome, posts, tresp, timeouts>>

\* The call's handler, once session.get has returned r.
handle(t, r) ==
    IF op[t] = "search" THEN search_handle(r, silent[t]) ELSE referentiel_handle(r)

\* A response to the GET in flight arrives. A status of status_forcelist is
\* retried after the backoff, or ends the call with RetryError once the policy
\* is exhausted; any other response is returned by session.get and handled.
Respond(t, r) ==
    /\ pc[t] = "wait"
    /\ hist' = [hist EXCEPT ![t] = Append(@, r.status)]
    /\ IF is_retry(r.status) /\ ~is_exhausted(attempts[t])
       THEN /\ pc' = [pc EXCEPT ![t] = "backoff"]
            /\ UNCHANGED <<outcome, resp, chk, hdr, sentAt>>
       ELSE \* session.get is over: the request, its headers and get_token's
            \* current_time are gone with it
            /\ pc' = [pc EXCEPT ![t] = "done"]
            /\ chk' = [chk EXCEPT ![t] = "none"]
            /\ hdr' = [hdr EXCEPT ![t] = NoToken]
            /\ sentAt' = [sentAt EXCEPT ![t] = NoTime]
            /\ IF is_retry(r.status)
               THEN /\ outcome' = [outcome EXCEPT ![t] =
                           Raised("RetryError", <<"too many error responses">>)]
                    /\ resp' = resp
               ELSE /\ resp' = [resp EXCEPT ![t] = r]
                    /\ outcome' = [outcome EXCEPT ![t] = handle(t, r)]
    /\ UNCHANGED <<now, token, origin, issued, op, silent, t0, attempts, posts,
                   tresp, timeouts>>

\* The backoff is over: the adapter sends the same request, headers included, again.
Resend(t) ==
    /\ pc[t] = "backoff"
    /\ attempts' = [attempts EXCEPT ![t] = @ + 1]
    /\ sentAt' = [sentAt EXCEPT ![t] = now]
    /\ pc' = [pc EXCEPT ![t] = "wait"]
    /\ UNCHANGED <<now, token, origin, issued, op, silent, chk, t0, hdr, hist, resp,
                   outcome, posts, tresp, timeouts>>

\* The GET in flight exceeds self.timeout. Retry(total=3) counts read errors of
\* a GET like the statuses of status_forcelist: the adapter sends the request
\* again after the backoff, and raises ConnectionError once it is exhausted.
Timeout(t) ==
    /\ pc[t] = "wait"
    /\ timeouts' = [timeouts EXCEPT ![t] = @ + 1]
    /\ IF ~is_exhausted(attempts[t])
       THEN /\ pc' = [pc EXCEPT ![t] = "backoff"]
            /\ UNCHANGED <<outcome, chk, hdr, sentAt>>
       ELSE /\ pc' = [pc EXCEPT ![t] = "done"]
            /\ chk' = [chk EXCEPT ![t] = "none"]
            /\ hdr' = [hdr EXCEPT ![t] = NoToken]
            /\ sentAt' = [sentAt EXCEPT ![t] = NoTime]
            /\ outcome' = [outcome EXCEPT ![t] =
                   Raised("ConnectionError", <<"Max retries exceeded", "Read timed out">>)]
    /\ UNCHANGED <<now, token, origin, issued, op, silent, t0, attempts, hist, resp,
                   posts, tresp>>

\* The token POST exceeds self.timeout: requests.post's own adapter does not
\* retry, the Timeout exception leaves get_token and the call that ran it.
TimeoutPost(t) ==
    /\ pc[t] = "post"
    /\ timeouts' = [timeouts EXCEPT ![t] = @ + 1]
    /\ pc' = [pc EXCEPT ![t] = "done"]
    /\ chk' = [chk EXCEPT ![t] = "none"]
    /\ t0' = [t0 EXCEPT ![t] = NoTime]
    /\ outcome' = [outcome EXCEPT ![t] = Raised("ReadTimeout", <<"Read timed out">>)]
    /\ UNCHANGED <<now, token, origin, issued, op, silent, hdr, attempts, sentAt, hist,
                   resp, posts, tresp>>

\* The caller has its result (or its exception) and may call again.
Return(t) ==
    /\ pc[t] = "done"
    /\ pc' = [pc EXCEPT ![t] = "idle"]
    /\ op' = [op EXCEPT ![t] = "none"]
    /\ silent' = [silent EXCEPT ![t] = FALSE]
    /\ attempts' = [attempts EXCEPT ![t] = 0]
    /\ hist' = [hist EXCEPT ![t] = <<>>]
    /\ resp' = [resp EXCEPT ![t] = NoResp]
    /\ outcome' = [outcome EXCEPT ![t] = NoOutcome]
    /\ posts' = [posts EXCEPT ![t] = 0]
    /\ tresp' = [tresp EXCEPT ![t] = NoResp]
    /\ timeouts' = [timeouts EXCEPT ![t] = 0]
    /\ UNCHANGED <<now, token, origin, issued, chk, t0, hdr, sentAt>>

\* One step of the callers in T, the API answering with the responses in R
\* and the token endpoint with the statuses in TS.
NextOf(T, R, S, TS) ==
    \/ Tick
    \/ \E t \in T, s \in S : search(t, s)
    \/ \E t \in T : referentiel(t)
    \/ \E t \in T : get_token_call(t)
    \/ \E t \in T, st \in TS, r \in AllTokenResponses : get_token(t, st, r)
    \/ \E t \in T : Dispatch(t)
    \/ \E t \in T, r \in R : Respond(t, r)
    \/ \E t \in T : Resend(t)
    \/ \E t \in T : Return(t)

\* One caller at a time: every call runs to its end before the next one starts.
Next == NextOf({"t1"}, Responses, BOOLEAN, TokenStatuses)

Spec == Init /\ [][Next]_vars

\* The responses of the concurrent specification: one per class the retry
\* policy tells apart (returned, retried).
RaceResponses ==
    {r \in Responses : r.status = 502 \/ (r.status = 200 /\ r.headers = HeadersWith(CR_Good))}

\* Concurrent callers on the one client instance, interleaved at every step.
NextRace == NextOf(Threads, RaceResponses, {FALSE}, {200, 400})

SpecRace == Init /\ [][NextRace]_vars

\* One caller, and requests that may exceed the timeout.
NextNet == Next \/ Timeout("t1") \/ TimeoutPost("t1")

SpecNet == Init /\ [][NextNet]_vars

\* ------------------------------------------------------------- claims
Last(q) == q[Len(q)]
Contains(text, part) == \E i \in 1..Len(text) : text[i] = part
InFlight(t) == pc[t] \in {"wait", "backoff"}
RetryStatuses == {429, 502}
\* A status that is neither 2xx nor retried by the policy.
IsPlainError(st) == st >= 400 /\ st \notin RetryStatuses

\* C1: every GET search or referentiel sends carries a token with
\* now < expires_at at the time it is sent, and a call that found no token or an
\* expired one has completed a refresh before its GET is dispatched.
C1_TokenFreshAtSend ==
    \A t \in Threads :
        pc[t] = "wait" =>
            /\ sentAt[t] < hdr[t].expires_at
            /\ chk[t] \in {"valid", "refreshed"}

\* C2: a 429 or 502 is retried, up to 3 retries after the first attempt, and the
\* first response with another status ends the sequence; for [502, 502, 200]
\* there are exactly 3 physical attempts and the 200 response is the result.
C2_RetryUntilOtherStatus ==
    \A t \in Threads :
        /\ \A i \in 1..(Len(hist[t]) - 1) : hist[t][i] \in RetryStatuses
        /\ Len(hist[t]) <= 4
        /\ pc[t] = "backoff" => Last(hist[t]) \in RetryStatuses /\ attempts[t] <= 3
        /\ (pc[t] = "done" /\ hist[t] # <<>>) =>
              /\ attempts[t] = Len(hist[t])
              /\ Last(hist[t]) \in RetryStatuses => Len(hist[t]) = 4
              /\ Last(hist[t]) \notin RetryStatuses => resp[t].status = Last(hist[t])
        /\ (pc[t] = "done" /\ hist[t] = <<502, 502, 200>>) =>
              /\ attempts[t] = 3
              /\ resp[t].status = 200
              /\ op[t] = "referentiel" => outcome[t] = Returned(resp[t].body.json)
              /\ (op[t] = "search" /\ resp[t].headers = HeadersWith(CR_Good)) =>
                     /\ outcome[t].kind = "returned"
                     /\ outcome[t].value["resultats"] = "offers"

C2_Witness ==
    \E t \in Threads :
        /\ pc[t] = "done"
        /\ hist[t] = <<502, 502, 200>>
        /\ attempts[t] = 3
        /\ outcome[t].kind = "returned"

\* C3: when every attempt answers 429 or 502 the client makes exactly 4 physical
\* attempts, never a 5th, and the failure reaches the caller as an HTTPError.
C3_ExhaustionRaisesHttpError ==
    \A t \in Threads :
        /\ attempts[t] <= 4
        /\ (/\ pc[t] = "done"
            /\ hist[t] # <<>>
            /\ \A i \in 1..Len(hist[t]) : hist[t][i] \in RetryStatuses) =>
               /\ attempts[t] = 4
               /\ outcome[t].kind = "raised"
               /\ outcome[t].exc = "HTTPError"

C5_RefreshesSerialized ==
    /\ Cardinality({t \in Threads : pc[t] = "post"}) <= 1
    /\ \A a, b \in Threads : ~(pc[a] = "build" /\ pc[b] = "post")

\* C6: with concurrent search calls and a clock that advances at any point, no
\* physical GET of a search call, retries after a backoff included, is sent with
\* a token whose expires_at is <= the time of the send.
C6_NoExpiredTokenOnSearch ==
    \A t \in Threads :
        (op[t] = "search" /\ InFlight(t)) => hdr[t].expires_at > sentAt[t]

\* C7: the cached token's expires_at is the timestamp taken before the POST
\* plus the response's expires_in, whenever the response arrived.
C7_ExpiresAtFromRequestStart ==
    token # NoToken =>
        /\ origin.current_time # NoTime
        /\ token.expires_at = origin.current_time + token.expires_in

C7_Witness ==
    /\ token # NoToken
    /\ origin.current_time < origin.arrival
    /\ token.expires_at = origin.current_time + token.expires_in

\* A search call that has ended on the 2xx response session.get returned.
SearchGot2xx(t) ==
    /\ pc[t] = "done"
    /\ op[t] = "search"
    /\ resp[t] # NoResp
    /\ ~raise_for_status(resp[t])

IntRange(a, b, c) ==
    [first_index |-> [int |-> a], last_index |-> [int |-> b], max_results |-> [int |-> c]]
StrRange(a, b, c) ==
    [first_index |-> [str |-> a], last_index |-> [str |-> b], max_results |-> [str |-> c]]

\* C8 as claimed: for 'offres <a>-<b>/<c>' the result carries the range as three
\* integers under "Content-Range" next to the body's fields ('offres 0-19/134':
\* 0, 19, 134); with the header absent or not matching, search raises and
\* returns no result.
C8_RangeAsIntegers ==
    \A t \in Threads :
        SearchGot2xx(t) =>
            /\ resp[t].headers = HeadersWith(CR_Good) =>
                   outcome[t] = Returned(("Content-Range" :> IntRange(0, 19, 134))
                                         @@ resp[t].body.json)
            /\ resp[t].headers = HeadersWith(CR_Next) =>
                   outcome[t] = Returned(("Content-Range" :> IntRange(20, 39, 134))
                                         @@ resp[t].body.json)
            /\ resp[t].headers \in {HeadersPlain, HeadersWith(CR_Star)} =>
                   outcome[t].kind = "raised"

\* C8 as amended: the range is carried as the three captured digit strings
\* ('offres 0-19/134': '0', '19', '134'), not as integers; with the header
\* absent search raises KeyError, with a header the pattern does not match
\* AttributeError, and it returns no result.
C8_RangeAsDigitStrings ==
    \A t \in Threads :
        SearchGot2xx(t) =>
            /\ resp[t].headers = HeadersWith(CR_Good) =>
                   outcome[t] = Returned(("Content-Range" :>
                                              StrRange(<<"0">>, <<"1","9">>, <<"1","3","4">>))
                                         @@ resp[t].body.json)
            /\ resp[t].headers = HeadersWith(CR_Next) =>
                   outcome[t] = Returned(("Content-Range" :>
                                              StrRange(<<"2","0">>, <<"3","9">>, <<"1","3","4">>))
                                         @@ resp[t].body.json)
            /\ resp[t].headers = HeadersPlain =>
                   outcome[t].kind = "raised" /\ outcome[t].exc = "KeyError"
            /\ resp[t].headers = HeadersWith(CR_Star) =>
                   outcome[t].kind = "raised" /\ outcome[t].exc = "AttributeError"

C8_Witness ==
    /\ \E t \in Threads :
           /\ SearchGot2xx(t)
           /\ resp[t].headers = HeadersWith(CR_Next)
           /\ outcome[t].kind = "returned"
           /\ outcome[t].value["Content-Range"].last_index = [str |-> <<"3","9">>]
           /\ outcome[t].value["resultats"] = "offers"

\* C9: in silent-error mode every HTTP-level failure of the search request (a
\* non-2xx response, a 429/502 that outlives the retries) is printed, not
\* raised, and the call returns None. (A 400 whose body has no JSON 'message'
\* is left out here: C11 is about it.)
C9_SilentModeNeverRaises ==
    \A t \in Threads :
        (/\ pc[t] = "done"
         /\ op[t] = "search"
         /\ silent[t]
         /\ hist[t] # <<>>
         /\ \/ Last(hist[t]) \in RetryStatuses
            \/ /\ resp[t] # NoResp
               /\ raise_for_status(resp[t])
               /\ resp[t].status = 400 =>
                      IsJson(resp[t].body) /\ "message" \in DOMAIN resp[t].body.json) =>
            /\ outcome[t].kind = "absent"
            /\ outcome[t].printed # <<>>

\* C10: a 400 to search whose JSON body has a 'message' m ends with an error
\* text, raised as HTTPError or printed in silent mode, that contains both the
\* generic HTTP error text and m.
C10_MessageInErrorText ==
    \A t \in Threads :
        (/\ pc[t] = "done"
         /\ op[t] = "search"
         /\ resp[t] # NoResp
         /\ resp[t].status = 400
         /\ IsJson(resp[t].body)
         /\ "message" \in DOMAIN resp[t].body.json) =>
            LET m == resp[t].body.json["message"]
                text == IF outcome[t].kind = "absent" THEN outcome[t].printed
                        ELSE IF outcome[t].kind = "raised" THEN outcome[t].text
                        ELSE <<>>
            IN  /\ outcome[t].kind = (IF silent[t] THEN "absent" ELSE "raised")
                /\ outcome[t].kind = "raised" => outcome[t].exc = "HTTPError"
                /\ Contains(text, "400 Client Error")
                /\ Contains(text, m)

C10_Witness ==
    /\ \E t \in Threads :
           /\ pc[t] = "done"
           /\ op[t] = "search"
           /\ resp[t] = Response(400, HeadersPlain, JsonBody(MessageObj))
           /\ outcome[t].kind = "raised"
           /\ Contains(outcome[t].text, "invalid filter")

\* What the call's failure told its caller: the raised exception's text, or
\* the text printed before None was returned.
ErrorText(t) ==
    IF outcome[t].kind = "absent" THEN outcome[t].printed
    ELSE IF outcome[t].kind = "raised" THEN outcome[t].text
    ELSE <<>>

\* A 400 response to search whose body is not JSON with a 'message' field.
Is400WithoutMessage(r) ==
    /\ r # NoResp
    /\ r.status = 400
    /\ ~(IsJson(r.body) /\ "message" \in DOMAIN r.body.json)

\* C11: a 400 to search whose body cannot be parsed as JSON with a 'message'
\* field ends with the raw HTTP error text, raised as HTTPError (normal mode) or
\* printed with None returned (silent mode); no JSON-parsing or missing-field
\* error reaches the caller.
C11_FallbackToHttpError ==
    \A t \in Threads :
        (pc[t] = "done" /\ op[t] = "search" /\ Is400WithoutMessage(resp[t])) =>
            /\ outcome[t].kind = (IF silent[t] THEN "absent" ELSE "raised")
            /\ outcome[t].kind = "raised" => outcome[t].exc = "HTTPError"
            /\ ErrorText(t) = <<"400 Client Error">>

\* A call whose token request the token endpoint answered with r, which made
\* get_token raise.
TokenRequestFailed(t) == pc[t] = "done" /\ tresp[t] # NoResp

\* C12: when the token endpoint rejects the token request, a 400 surfaces an
\* HTTPError whose text holds the HTTP error detail and the parsed response
\* body, any other non-2xx status surfaces the raw HTTPError unchanged, and in
\* both cases the call fails and no token is returned.
C12_TokenRejectionSurfaced ==
    \A t \in Threads :
        (TokenRequestFailed(t) /\ raise_for_status(tresp[t])) =>
            /\ outcome[t].kind = "raised"
            /\ outcome[t].exc = "HTTPError"
            /\ IF tresp[t].status = 400
               THEN /\ Contains(outcome[t].text, "400 Client Error")
                    /\ IsJson(tresp[t].body)
                    /\ Contains(outcome[t].text, py_str(tresp[t].body.json))
               ELSE outcome[t].text = str_error(tresp[t])

\* C13: outside silent-error mode a search call that has ended has either
\* returned a result holding the parsed range or raised, never returned None;
\* referentiel and get_token never return None, whatever the mode.
C13_NothingDroppedUnlessSilent ==
    \A t \in Threads :
        pc[t] = "done" =>
            /\ (op[t] = "search" /\ ~silent[t]) =>
                   \/ outcome[t].kind = "raised"
                   \/ /\ outcome[t].kind = "returned"
                      /\ "Content-Range" \in DOMAIN outcome[t].value
                      /\ outcome[t].value["Content-Range"] # None
            /\ op[t] \in {"referentiel", "get_token"} =>
                   outcome[t].kind \in {"raised", "returned"}

C13_Witness ==
    \E t \in Threads :
        /\ pc[t] = "done"
        /\ op[t] = "search"
        /\ ~silent[t]
        /\ resp[t] # NoResp
        /\ resp[t].status = 404
        /\ outcome[t] = Raised("HTTPError", <<"404 Client Error">>)

ReferentielAnswered(t) == pc[t] = "done" /\ op[t] = "referentiel" /\ hist[t] # <<>>

\* C15: referentiel returns the decoded body of a 2xx response, and fails with
\* an HTTPError carrying the plain HTTP error text on every non-2xx response
\* the retry policy has not absorbed (a 400 like any other status, without the
\* body's message; a 429 or 502 that outlived the retries included).
C15_ReferentielPlainHttpError ==
    \A t \in Threads :
        ReferentielAnswered(t) =>
            IF resp[t] # NoResp /\ ~raise_for_status(resp[t])
            THEN IsJson(resp[t].body) => outcome[t] = Returned(resp[t].body.json)
            ELSE /\ outcome[t].kind = "raised"
                 /\ outcome[t].exc = "HTTPError"
                 /\ resp[t] # NoResp => outcome[t].text = str_error(resp[t])

\* The step in which caller t enters search or referentiel, get_headers included.
CallStarts(t) == pc[t] = "idle" /\ pc'[t] # "idle" /\ op'[t] \in {"search", "referentiel"}

\* The cached token is missing or stale at the current clock (now = expires_at
\* counts as stale).
NeedsRefresh == token = NoToken \/ now >= token.expires_at

\* C16: a search or referentiel call sends a token request exactly when no
\* token is cached or now >= expires_at, the boundary now = expires_at included;
\* a call that found now < expires_at sends no token request, leaves the cached
\* token as it is and sends its GETs with that token's access_token.
C16_RefreshExactlyWhenStale ==
    [][\A t \in Threads :
           /\ CallStarts(t) =>
                  /\ pc'[t] = "post" <=> NeedsRefresh
                  /\ pc'[t] = "post" => posts'[t] = 1
                  /\ pc'[t] # "post" =>
                         /\ pc'[t] = "build"
                         /\ chk'[t] = "valid"
                         /\ posts'[t] = 0
           /\ (chk[t] = "valid" /\ pc[t] # "done") =>
                  /\ posts'[t] = 0
                  /\ token' = token
                  /\ issued' = issued
                  /\ pc'[t] \in {"wait", "backoff"} =>
                         hdr'[t].access_token = token.access_token
      ]_vars

C16_Witness ==
    \E t \in Threads :
        /\ pc[t] = "post"
        /\ op[t] \in {"search", "referentiel"}
        /\ token # NoToken
        /\ t0[t] = token.expires_at
        /\ posts[t] = 1

\* C17: the cached token is absent, or it is the complete token of the one
\* successful refresh recorded in origin: access_token and expires_in as that
\* response gave them, expires_at = that refresh's start + its expires_in, and
\* no other field.
C17_TokenFromOneRefresh ==
    \/ token = NoToken /\ issued = 0
    \/ /\ token # NoToken
       /\ DOMAIN token = {"access_token", "expires_in", "expires_at"}
       /\ token.access_token = origin.access_token
       /\ token.expires_in = origin.expires_in
       /\ token.expires_at = origin.current_time + origin.expires_in

C17_Witness ==
    /\ token # NoToken
    /\ issued = 2
    /\ token.access_token = origin.access_token
    /\ token.expires_in = 1
    /\ \E t \in Threads : pc[t] = "wait" /\ hdr[t] # NoToken /\ hdr[t] # token

\* The step in which caller t's token request fails.
TokenRequestFails(t) == pc[t] = "post" /\ pc'[t] = "done" /\ outcome'[t].kind # "returned"

C19_TokenPostNeverRetried ==
    \A t \in Threads :
        /\ posts[t] <= 1
        /\ pc[t] = "post" => posts[t] = 1
        /\ chk[t] = "refreshed" => posts[t] = 1
        /\ (TokenRequestFailed(t) /\ tresp[t].status \in RetryStatuses) =>
               /\ posts[t] = 1
               /\ attempts[t] = 0
               /\ outcome[t] = Raised("HTTPError", str_error(tresp[t]))

C19_Witness ==
    \E t \in Threads :
        /\ TokenRequestFailed(t)
        /\ tresp[t].status = 429
        /\ posts[t] = 1
        /\ outcome[t] = Raised("HTTPError", <<"429 Client Error">>)

====
